---------------------------- MODULE Spec2Model ----------------------------
(***************************************************************************)
(* State-machine model of the two Lightning web components of the          *)
(* repository:                                                             *)
(*   lwc/serialProcessSetup/serialProcessSetup.js  (settings table)        *)
(*   lwc/processVariables/processVariables.js      (process variables)     *)
(*                                                                         *)
(* JavaScript values are encoded as follows.                               *)
(*   - a string is a TLA+ string; an absent property (undefined) of a text *)
(*     field is the marker UNDEFINED;                                      *)
(*   - the text typed into the Order input is a sequence of one-character  *)
(*     strings, so that parseInt can be computed digit by digit;           *)
(*   - an Order__c value is a tagged record (a number, undefined, the      *)
(*     empty string, or NaN), because it is a number on load and may       *)
(*     become '' or NaN through handleTableEdit;                           *)
(*   - an array is a sequence, a Map is the sequence of its [key, value]   *)
(*     entries in insertion order.                                         *)
(***************************************************************************)
EXTENDS Integers, Sequences, FiniteSets, TLC

(***************************************************************************)
(* Bounds of the model.                                                    *)
(***************************************************************************)
\* handleTableEdit calls in one behaviour.
MaxEdits == 2
\* updateProcessSettings promise chains pending at the same time.
MaxInFlight == 2
\* Records in one working set handed to the projection (SpecProj).
MaxProjRecords == 3
\* handleSave calls of the process variables component pending at the same
\* time (SpecVars).
MaxCalls == 2

(***************************************************************************)
(* JavaScript values.                                                      *)
(***************************************************************************)
UNDEFINED == "<undefined>"

Num(n) == [t |-> "number", n |-> n]
OrderUndefined == [t |-> "undefined", n |-> 0]
OrderEmptyString == [t |-> "string", n |-> 0]
OrderNaN == [t |-> "NaN", n |-> 0]

\* ToBoolean of a text property: undefined and '' are falsy.
TruthyText(s) == s # UNDEFINED /\ s # ""

\* ToBoolean of an Order__c value: undefined, '', NaN and 0 are falsy.
TruthyOrder(o) == o.t = "number" /\ o.n # 0

\* a !== b on Order__c values: NaN is not strictly equal to itself.
StrictNotEqual(a, b) == a # b \/ a.t = "NaN"

\* The strings of the model in the order String.prototype.localeCompare
\* gives them ('' first, then alphabetically).
Collation == <<"", "A", "B", "C", "D", "G1", "G2", "Ungrouped", "Z9">>

CollationRank(s) == CHOOSE i \in 1..Len(Collation) : Collation[i] = s

\* a.localeCompare(b): negative, zero or positive.
LocaleCompare(a, b) == CollationRank(a) - CollationRank(b)

(***************************************************************************)
(* parseInt(text, 10): optional sign, then the longest prefix of decimal   *)
(* digits; NaN when there is no digit.                                     *)
(***************************************************************************)
DigitChars == <<"0", "1", "2", "3", "4", "5", "6", "7", "8", "9">>

IsDigit(c) == \E i \in 1..Len(DigitChars) : DigitChars[i] = c

DigitValue(c) == (CHOOSE i \in 1..Len(DigitChars) : DigitChars[i] = c) - 1

RECURSIVE DigitPrefixValue(_, _)
DigitPrefixValue(text, acc) ==
    IF text = <<>> \/ ~IsDigit(Head(text))
    THEN acc
    ELSE DigitPrefixValue(Tail(text), 10 * acc + DigitValue(Head(text)))

ParseInt(text) ==
    LET signed == text # <<>> /\ Head(text) \in {"-", "+"}
        digits == IF signed THEN Tail(text) ELSE text
        value  == DigitPrefixValue(digits, 0)
    IN  IF digits = <<>> \/ ~IsDigit(Head(digits))
        THEN OrderNaN
        ELSE Num(IF signed /\ Head(text) = "-" THEN -value ELSE value)

(***************************************************************************)
(* getRowClass and the normalisation of a fetched record.                  *)
(***************************************************************************)
GetRowClass(isActive) == IF isActive THEN "tr active" ELSE "tr inactive"

\* { ...record } with two more properties.
WithProps(record, id, rowClass) ==
    [f \in DOMAIN record \cup {"Id", "rowClass"} |->
        IF f = "Id" THEN id
        ELSE IF f = "rowClass" THEN rowClass
        ELSE record[f]]

\* record.Id || record.Name
DerivedId(record) == IF TruthyText(record.Id) THEN record.Id ELSE record.Name

\* wiredProcess: result.data.map(record => ({...record, Id, rowClass})).
NormalizeLoaded(data) ==
    [i \in 1..Len(data) |->
        WithProps(data[i], DerivedId(data[i]), GetRowClass(data[i].Active__c))]

(***************************************************************************)
(* processGroupedData: the grouped and sorted projection of processData.   *)
(***************************************************************************)
SentinelOrder == 999

\* process.Group__c || 'Ungrouped'
GroupNameOf(process) ==
    IF TruthyText(process.Group__c) THEN process.Group__c ELSE "Ungrouped"

\* { ...process, statusClass }
WithStatusClass(process) ==
    [f \in DOMAIN process \cup {"statusClass"} |->
        IF f = "statusClass"
        THEN (IF process.Active__c THEN "process-box active-process"
              ELSE "process-box inactive-process")
        ELSE process[f]]

\* Variant of GroupMapPush: a later member replaces the group's list.
GroupMapPushReplacing(groupMap, groupName, member) ==
    IF \E i \in 1..Len(groupMap) : groupMap[i].key = groupName
    THEN [i \in 1..Len(groupMap) |->
            IF groupMap[i].key = groupName
            THEN [key |-> groupName, value |-> <<member>>]
            ELSE groupMap[i]]
    ELSE Append(groupMap, [key |-> groupName, value |-> <<member>>])

\* groupMap.has / set / get(...).push on the Map's entries.
GroupMapPush(groupMap, groupName, member) ==
    IF \E i \in 1..Len(groupMap) : groupMap[i].key = groupName
    THEN [i \in 1..Len(groupMap) |->
            IF groupMap[i].key = groupName
            THEN [key |-> groupName, value |-> Append(groupMap[i].value, member)]
            ELSE groupMap[i]]
    ELSE Append(groupMap, [key |-> groupName, value |-> <<member>>])

\* The forEach over processData, from record i on.
RECURSIVE BuildGroupMap(_, _, _)
BuildGroupMap(records, i, groupMap) ==
    IF i > Len(records)
    THEN groupMap
    ELSE BuildGroupMap(records, i + 1,
            GroupMapPush(groupMap, GroupNameOf(records[i]),
                         WithStatusClass(records[i])))

\* a.Order__c || 999
OrderOrSentinel(o) == IF TruthyOrder(o) THEN o.n ELSE SentinelOrder

\* The comparator of the sort of a group's processes.
CompareProcesses(a, b) ==
    IF StrictNotEqual(a.Order__c, b.Order__c)
    THEN OrderOrSentinel(a.Order__c) - OrderOrSentinel(b.Order__c)
    ELSE LocaleCompare(a.Name, b.Name)

\* The comparator of the sort of the groups.
CompareGroups(a, b) == LocaleCompare(a.groupName, b.groupName)

\* Array.prototype.sort is stable: x goes after every element it does not
\* precede.
RECURSIVE InsertProcess(_, _)
InsertProcess(sorted, x) ==
    IF sorted = <<>> \/ CompareProcesses(sorted[Len(sorted)], x) <= 0
    THEN Append(sorted, x)
    ELSE Append(InsertProcess(SubSeq(sorted, 1, Len(sorted) - 1), x),
                sorted[Len(sorted)])

RECURSIVE SortProcesses(_)
SortProcesses(processes) ==
    IF processes = <<>>
    THEN <<>>
    ELSE InsertProcess(SortProcesses(SubSeq(processes, 1, Len(processes) - 1)),
                       processes[Len(processes)])

RECURSIVE InsertGroup(_, _)
InsertGroup(sorted, x) ==
    IF sorted = <<>> \/ CompareGroups(sorted[Len(sorted)], x) <= 0
    THEN Append(sorted, x)
    ELSE Append(InsertGroup(SubSeq(sorted, 1, Len(sorted) - 1), x),
                sorted[Len(sorted)])

\* Variant of SortGroups: the groups stay in the insertion order of groupMap.
SortGroupsUnsorted(groups) == groups

RECURSIVE SortGroups(_)
SortGroups(groups) ==
    IF groups = <<>>
    THEN <<>>
    ELSE InsertGroup(SortGroups(SubSeq(groups, 1, Len(groups) - 1)),
                     groups[Len(groups)])

ActiveCount(processes) ==
    Cardinality({i \in 1..Len(processes) : processes[i].Active__c})

\* Variant of GroupOf: allActive computed with some() instead of every().
GroupOfSomeActive(groupName, processes) ==
    LET sortedProcesses == SortProcesses(processes)
        allActive   == \E i \in 1..Len(sortedProcesses) : sortedProcesses[i].Active__c
        allInactive == \A i \in 1..Len(sortedProcesses) : ~sortedProcesses[i].Active__c
        activeCount == ActiveCount(sortedProcesses)
        totalCount  == Len(sortedProcesses)
    IN  [groupName   |-> groupName,
         processes   |-> sortedProcesses,
         allActive   |-> allActive,
         headerClass |-> IF allActive THEN "group-header active-group-header"
                         ELSE IF allInactive THEN "group-header inactive-group-header"
                         ELSE "group-header mixed-group-header",
         statusText  |-> ToString(activeCount) \o "/" \o ToString(totalCount)
                         \o " Active"]

\* The group object built from one entry of groupMap.
GroupOf(groupName, processes) ==
    LET sortedProcesses == SortProcesses(processes)
        allActive   == \A i \in 1..Len(sortedProcesses) : sortedProcesses[i].Active__c
        allInactive == \A i \in 1..Len(sortedProcesses) : ~sortedProcesses[i].Active__c
        activeCount == ActiveCount(sortedProcesses)
        totalCount  == Len(sortedProcesses)
    IN  [groupName   |-> groupName,
         processes   |-> sortedProcesses,
         allActive   |-> allActive,
         headerClass |-> IF allActive THEN "group-header active-group-header"
                         ELSE IF allInactive THEN "group-header inactive-group-header"
                         ELSE "group-header mixed-group-header",
         statusText  |-> ToString(activeCount) \o "/" \o ToString(totalCount)
                         \o " Active"]

ProcessGroupedData(records) ==
    IF records = <<>>
    THEN <<>>
    ELSE LET groupMap == BuildGroupMap(records, 1, <<>>)
         IN  SortGroups([i \in 1..Len(groupMap) |->
                            GroupOf(groupMap[i].key, groupMap[i].value)])


(***************************************************************************)
(* The environment: what the Apex controller can answer.                   *)
(***************************************************************************)
ServerRecord(id, name, active, group, order) ==
    [Id |-> id, Name |-> name, Active__c |-> active, Group__c |-> group,
     Handler_Class__c |-> "H1", Object__c |-> "O1", Order__c |-> order]

\* A record with a surrogate id.
RecB == ServerRecord("r1", "B", TRUE, "G1", Num(1))
\* A record without id, group and order: its Id is derived from its Name.
RecA == ServerRecord(UNDEFINED, "A", FALSE, UNDEFINED, OrderUndefined)
\* A record whose id is the Name of RecA.
RecC == ServerRecord("A", "C", TRUE, "G1", Num(2))

\* The record lists getProcessSettings can return.
Datasets == {<<>>, <<RecB, RecA>>, <<RecA, RecC>>}

\* error.body.message of a rejected Apex call.
Messages == {"denied"}

\* The values an operator types or ticks in the table: a text column, the
\* checkbox column and the number column (left empty, or filled).  The Group,
\* Handler Class and Object columns go through the same code path as the Name
\* column and stay at their loaded values.
NameInputs == {"D"}
ActiveInputs == {FALSE}
OrderInputs == {<<>>, <<"2">>}
\* A data-id attribute that matches no record.
UnknownId == "Z9"

(***************************************************************************)
(* State of the settings table component.                                  *)
(***************************************************************************)
VARIABLES
    processData,         \* @track processData
    originalData,        \* @track originalData
    groupedProcessData,  \* @track groupedProcessData
    changedRecords,      \* @track changedRecords: Map entries [key, value]
    isLoading,           \* @track isLoading
    wiredProcessResult,  \* the last result provisioned by the wire
    saves,               \* pending promise chains of handleSaveChanges
    toasts,              \* ShowToastEvents dispatched by the last handler
    lastOp,              \* the handler or callback that ran last, and the
                         \* message of the rejection it was called with
    lastLoaded,          \* result.data of the last wiredProcess call with data
    editedIds,           \* ids edited since changedRecords was last cleared
    nEdits               \* handleTableEdit calls so far

(***************************************************************************)
(* State of the process variables component.  toasts and lastOp record the *)
(* toasts and the last handler of whichever component is running.          *)
(***************************************************************************)
VARIABLES
    serialEngineOn,                \* @track serialEngineOn
    serialEngineTimestampDisplay,  \* @track serialEngineTimestampDisplay
    labelSerialEngineOn,           \* @track labelSerialEngineOn
    labelSerialEngineTimestamp,    \* @track labelSerialEngineTimestamp
    editSerialEngineOn,            \* @track editSerialEngineOn
    editSerialEngineTimestamp,     \* @track editSerialEngineTimestamp
    rawSerialEngineTimestamp,      \* @track rawSerialEngineTimestamp
    calls                          \* pending Apex calls of the component

\* The fields of the settings table component.
settingsVars == <<processData, originalData, groupedProcessData, changedRecords,
                  isLoading, wiredProcessResult, saves, lastLoaded, editedIds,
                  nEdits>>

\* The fields of the process variables component.
pvVars == <<serialEngineOn, serialEngineTimestampDisplay, labelSerialEngineOn,
            labelSerialEngineTimestamp, editSerialEngineOn,
            editSerialEngineTimestamp, rawSerialEngineTimestamp, calls>>

vars == <<processData, originalData, groupedProcessData, changedRecords,
          isLoading, wiredProcessResult, saves, toasts, lastOp, lastLoaded,
          editedIds, nEdits, serialEngineOn, serialEngineTimestampDisplay,
          labelSerialEngineOn, labelSerialEngineTimestamp, editSerialEngineOn,
          editSerialEngineTimestamp, rawSerialEngineTimestamp, calls>>

\* null: an absent answer, error or timestamp.
NULL == [t |-> "null"]

\* The field initialisers of ProcessVariables.
ProcessVariablesConstructed ==
    /\ serialEngineOn = FALSE
    /\ serialEngineTimestampDisplay = "--"
    /\ labelSerialEngineOn = "Serial Engine On"
    /\ labelSerialEngineTimestamp = "Serial Engine Timestamp"
    /\ editSerialEngineOn = FALSE
    /\ editSerialEngineTimestamp = ""
    /\ rawSerialEngineTimestamp = NULL
    /\ calls = <<>>

NoResult == [kind |-> "none", data |-> <<>>, message |-> ""]
DataResult(data) == [kind |-> "data", data |-> data, message |-> ""]
ErrorResult(message) == [kind |-> "error", data |-> <<>>, message |-> message]

\* new ShowToastEvent({title, message, variant})
ShowToast(title, message, variant) ==
    [title |-> title, message |-> message, variant |-> variant]

Op(name, message) == [op |-> name, message |-> message]

Init ==
    /\ processData = <<>>
    /\ originalData = <<>>
    /\ groupedProcessData = <<>>
    /\ changedRecords = <<>>
    /\ isLoading = FALSE
    /\ wiredProcessResult = NoResult
    /\ saves = <<>>
    /\ toasts = <<>>
    /\ lastOp = Op("constructor", "")
    /\ lastLoaded = <<>>
    /\ editedIds = {}
    /\ nEdits = 0
    /\ ProcessVariablesConstructed

(***************************************************************************)
(* Map operations on changedRecords.                                       *)
(***************************************************************************)
MapKeys(map) == {map[i].key : i \in 1..Len(map)}

MapHas(map, key) == key \in MapKeys(map)

MapGet(map, key) == map[CHOOSE i \in 1..Len(map) : map[i].key = key].value

\* Variant of MapSet: an existing key keeps its first value.
MapSetKeepingFirst(map, key, value) ==
    IF MapHas(map, key)
    THEN map
    ELSE Append(map, [key |-> key, value |-> value])

\* Map.prototype.set: an existing key keeps its place.
MapSet(map, key, value) ==
    IF MapHas(map, key)
    THEN [i \in 1..Len(map) |->
            IF map[i].key = key THEN [key |-> key, value |-> value] ELSE map[i]]
    ELSE Append(map, [key |-> key, value |-> value])

\* Array.from(map.values())
MapValues(map) == [i \in 1..Len(map) |-> map[i].value]

\* get hasChanges()
HasChanges == Len(changedRecords) > 0

(***************************************************************************)
(* wiredProcess(result)                                                    *)
(***************************************************************************)
\* originalData after wiredProcess: result.data.map(record => ({...record})).
CopyRecords(data) == [i \in 1..Len(data) |-> data[i]]

\* The toast of the error branch.
LoadErrorToast(message) ==
    ShowToast("Error", "Error loading process settings: " \o message, "error")

\* Variant of WiredProcess: changedRecords is cleared in both branches.
WiredProcessClearingOnError(result) ==
    /\ wiredProcessResult' = result
    /\ changedRecords' = <<>>
    /\ editedIds' = {}
    /\ IF result.kind = "data"
       THEN /\ originalData' = CopyRecords(result.data)
            /\ processData' = NormalizeLoaded(result.data)
            /\ lastLoaded' = result.data
       ELSE UNCHANGED <<originalData, processData, lastLoaded>>

\* The assignments of wiredProcess, but for groupedProcessData.
WiredProcess(result) ==
    /\ wiredProcessResult' = result
    /\ IF result.kind = "data"
       THEN /\ originalData' = CopyRecords(result.data)
            /\ processData' = NormalizeLoaded(result.data)
            /\ changedRecords' = <<>>
            /\ editedIds' = {}
            /\ lastLoaded' = result.data
       ELSE UNCHANGED <<originalData, processData, changedRecords, editedIds,
                        lastLoaded>>

\* groupedProcessData when wiredProcess returns: processGroupedData() ran in
\* the data branch only.
WiredGrouped(result) ==
    IF result.kind = "data"
    THEN ProcessGroupedData(NormalizeLoaded(result.data))
    ELSE groupedProcessData

WiredToasts(result) ==
    IF result.kind = "error" THEN <<LoadErrorToast(result.message)>> ELSE <<>>

Results == {DataResult(d) : d \in Datasets} \cup {ErrorResult(m) : m \in Messages}

\* The wire adapter provisions the component (first load, or a new attempt
\* after a failed one).
WireProvision(result) ==
    /\ wiredProcessResult.kind # "data"
    /\ WiredProcess(result)
    /\ groupedProcessData' = WiredGrouped(result)
    /\ toasts' = WiredToasts(result)
    /\ lastOp' = Op("wiredProcess", result.message)
    /\ UNCHANGED <<isLoading, saves, nEdits>>
    /\ UNCHANGED pvVars

(***************************************************************************)
(* handleTableEdit(event)                                                  *)
(***************************************************************************)
\* The coercion of the input's value: parseInt for a non-empty Order__c.
CoerceFieldValue(fieldName, value) ==
    IF fieldName = "Order__c"
    THEN (IF value # <<>> THEN ParseInt(value) ELSE OrderEmptyString)
    ELSE value

\* { ...record, [fieldName]: fieldValue } and the rowClass update.
UpdatedRecord(record, fieldName, fieldValue) ==
    LET updated == [record EXCEPT ![fieldName] = fieldValue]
    IN  IF fieldName = "Active__c"
        THEN [updated EXCEPT !.rowClass = GetRowClass(fieldValue)]
        ELSE updated

\* The map callback over processData.
EditedRecords(records, recordId, fieldName, fieldValue) ==
    [i \in 1..Len(records) |->
        IF records[i].Id = recordId
        THEN UpdatedRecord(records[i], fieldName, fieldValue)
        ELSE records[i]]

\* Variant of TrackChanges: changedRecords.set is called for every record,
\* matching or not.
RECURSIVE TrackChangesUnconditional(_, _, _, _, _, _)
TrackChangesUnconditional(map, records, recordId, fieldName, fieldValue, i) ==
    IF i > Len(records)
    THEN map
    ELSE TrackChangesUnconditional(
            MapSet(map, recordId,
                   UpdatedRecord(records[i], fieldName, fieldValue)),
            records, recordId, fieldName, fieldValue, i + 1)

\* changedRecords.set(recordId, updatedRecord) for each matching record, in
\* the order of the array.
RECURSIVE TrackChanges(_, _, _, _, _, _)
TrackChanges(map, records, recordId, fieldName, fieldValue, i) ==
    IF i > Len(records)
    THEN map
    ELSE TrackChanges(
            IF records[i].Id = recordId
            THEN MapSet(map, recordId,
                        UpdatedRecord(records[i], fieldName, fieldValue))
            ELSE map,
            records, recordId, fieldName, fieldValue, i + 1)

\* Variant of HandleTableEdit: the grouped view is not recomputed.
HandleTableEditStaleView(recordId, fieldName, value) ==
    LET fieldValue == CoerceFieldValue(fieldName, value)
        matches == \E i \in 1..Len(processData) : processData[i].Id = recordId
    IN  /\ nEdits < MaxEdits
        /\ nEdits' = nEdits + 1
        /\ processData' = EditedRecords(processData, recordId, fieldName, fieldValue)
        /\ changedRecords' = TrackChanges(changedRecords, processData, recordId,
                                          fieldName, fieldValue, 1)
        /\ editedIds' = IF matches THEN editedIds \cup {recordId} ELSE editedIds
        /\ toasts' = <<>>
        /\ lastOp' = Op("handleTableEdit", "")
        /\ UNCHANGED <<originalData, isLoading, wiredProcessResult, saves,
                       lastLoaded, groupedProcessData>>
        /\ UNCHANGED pvVars

HandleTableEdit(recordId, fieldName, value) ==
    LET fieldValue == CoerceFieldValue(fieldName, value)
        matches == \E i \in 1..Len(processData) : processData[i].Id = recordId
    IN  /\ nEdits < MaxEdits
        /\ nEdits' = nEdits + 1
        /\ processData' = EditedRecords(processData, recordId, fieldName, fieldValue)
        /\ changedRecords' = TrackChanges(changedRecords, processData, recordId,
                                          fieldName, fieldValue, 1)
        /\ groupedProcessData' = ProcessGroupedData(processData')
        /\ editedIds' = IF matches THEN editedIds \cup {recordId} ELSE editedIds
        /\ toasts' = <<>>
        /\ lastOp' = Op("handleTableEdit", "")
        /\ UNCHANGED <<originalData, isLoading, wiredProcessResult, saves,
                       lastLoaded>>
        /\ UNCHANGED pvVars

\* The ids the table renders, and one it does not.
EditIds == {processData[i].Id : i \in 1..Len(processData)} \cup {UnknownId}

TableEdit ==
    \E recordId \in EditIds :
        \/ \E v \in NameInputs : HandleTableEdit(recordId, "Name", v)
        \/ \E v \in ActiveInputs : HandleTableEdit(recordId, "Active__c", v)
        \/ \E v \in OrderInputs : HandleTableEdit(recordId, "Order__c", v)

(***************************************************************************)
(* handleSaveChanges() and the callbacks of its promise chain.             *)
(***************************************************************************)
RemoveAt(seq, i) ==
    [j \in 1..(Len(seq) - 1) |-> IF j < i THEN seq[j] ELSE seq[j + 1]]

SaveErrorToast(message) ==
    ShowToast("Error", "Error updating records: " \o message, "error")

\* Variant of SaveNothing: no early return, isLoading is set.
SaveNothingLoading ==
    /\ Len(changedRecords) = 0
    /\ toasts' = <<ShowToast("Info", "No changes to save", "info")>>
    /\ isLoading' = TRUE
    /\ lastOp' = Op("handleSaveChanges", "")
    /\ UNCHANGED <<processData, originalData, groupedProcessData, changedRecords,
                   wiredProcessResult, saves, lastLoaded, editedIds, nEdits>>
    /\ UNCHANGED pvVars

\* The early return on an empty Map.
SaveNothing ==
    /\ Len(changedRecords) = 0
    /\ toasts' = <<ShowToast("Info", "No changes to save", "info")>>
    /\ lastOp' = Op("handleSaveChanges", "")
    /\ UNCHANGED <<processData, originalData, groupedProcessData, changedRecords,
                   isLoading, wiredProcessResult, saves, lastLoaded, editedIds,
                   nEdits>>
    /\ UNCHANGED pvVars

\* isLoading = true and the call of updateProcessSettings with the batch.
SaveIssue ==
    /\ Len(changedRecords) # 0
    /\ Len(saves) < MaxInFlight
    /\ isLoading' = TRUE
    /\ saves' = Append(saves, [stage |-> "persist",
                               batch |-> MapValues(changedRecords)])
    /\ toasts' = <<>>
    /\ lastOp' = Op("handleSaveChanges", "")
    /\ UNCHANGED <<processData, originalData, groupedProcessData, changedRecords,
                   wiredProcessResult, lastLoaded, editedIds, nEdits>>
    /\ UNCHANGED pvVars

HandleSaveChanges == SaveNothing \/ SaveIssue

\* Variant of PersistResolved: changedRecords is not cleared.
PersistResolvedKeepingChanges(i) ==
    /\ saves[i].stage = "persist"
    /\ toasts' = <<ShowToast("Success", "Process settings updated successfully",
                             "success")>>
    /\ saves' = [saves EXCEPT ![i] = [stage |-> "refresh", batch |-> <<>>]]
    /\ lastOp' = Op("persistResolved", "")
    /\ UNCHANGED <<processData, originalData, groupedProcessData, isLoading,
                   wiredProcessResult, lastLoaded, nEdits, changedRecords,
                   editedIds>>
    /\ UNCHANGED pvVars

\* updateProcessSettings resolved: the first then-callback, which calls
\* refreshApex.  The chain does not read recordsToUpdate again, so the
\* pending refresh keeps no batch.
PersistResolved(i) ==
    /\ saves[i].stage = "persist"
    /\ toasts' = <<ShowToast("Success", "Process settings updated successfully",
                             "success")>>
    /\ changedRecords' = <<>>
    /\ editedIds' = {}
    /\ saves' = [saves EXCEPT ![i] = [stage |-> "refresh", batch |-> <<>>]]
    /\ lastOp' = Op("persistResolved", "")
    /\ UNCHANGED <<processData, originalData, groupedProcessData, isLoading,
                   wiredProcessResult, lastLoaded, nEdits>>
    /\ UNCHANGED pvVars

\* Variant of PersistRejected: the catch-callback clears changedRecords.
PersistRejectedClearing(i, message) ==
    /\ saves[i].stage = "persist"
    /\ toasts' = <<SaveErrorToast(message)>>
    /\ isLoading' = FALSE
    /\ saves' = RemoveAt(saves, i)
    /\ changedRecords' = <<>>
    /\ lastOp' = Op("persistRejected", message)
    /\ UNCHANGED <<processData, originalData, groupedProcessData,
                   wiredProcessResult, lastLoaded, editedIds, nEdits>>
    /\ UNCHANGED pvVars

\* updateProcessSettings rejected: the catch-callback, then finally.
PersistRejected(i, message) ==
    /\ saves[i].stage = "persist"
    /\ toasts' = <<SaveErrorToast(message)>>
    /\ isLoading' = FALSE
    /\ saves' = RemoveAt(saves, i)
    /\ lastOp' = Op("persistRejected", message)
    /\ UNCHANGED <<processData, originalData, groupedProcessData, changedRecords,
                   wiredProcessResult, lastLoaded, editedIds, nEdits>>
    /\ UNCHANGED pvVars

\* refreshApex provisions new data to wiredProcess and resolves: the second
\* then-callback, then finally.
RefreshData(i, data) ==
    /\ saves[i].stage = "refresh"
    /\ WiredProcess(DataResult(data))
    /\ groupedProcessData' = ProcessGroupedData(processData')
    /\ toasts' = <<>>
    /\ isLoading' = FALSE
    /\ saves' = RemoveAt(saves, i)
    /\ lastOp' = Op("refreshData", "")
    /\ UNCHANGED nEdits
    /\ UNCHANGED pvVars

\* refreshApex provisions an error to wiredProcess; its promise then resolves
\* (second then-callback) or rejects (catch-callback); finally in both cases.
RefreshError(i, message, rejects) ==
    /\ saves[i].stage = "refresh"
    /\ WiredProcess(ErrorResult(message))
    /\ groupedProcessData' =
          IF rejects THEN WiredGrouped(ErrorResult(message))
          ELSE ProcessGroupedData(processData')
    /\ toasts' = WiredToasts(ErrorResult(message)) \o
                 (IF rejects THEN <<SaveErrorToast(message)>> ELSE <<>>)
    /\ isLoading' = FALSE
    /\ saves' = RemoveAt(saves, i)
    /\ lastOp' = Op("refreshError", message)
    /\ UNCHANGED nEdits
    /\ UNCHANGED pvVars

(***************************************************************************)
(* handleCancelChanges()                                                   *)
(***************************************************************************)
\* Variant of RestoreOriginal: the Id is copied, not derived again.
RestoreOriginalKeepingId(records) ==
    [i \in 1..Len(records) |->
        WithProps(records[i], records[i].Id, GetRowClass(records[i].Active__c))]

\* originalData.map(record => ({...record, Id, rowClass})).
RestoreOriginal(records) ==
    [i \in 1..Len(records) |->
        WithProps(records[i],
                  IF TruthyText(records[i].Id) THEN records[i].Id
                  ELSE records[i].Name,
                  GetRowClass(records[i].Active__c))]

\* Variant of HandleCancelChanges: the baseline is fetched again.
HandleCancelChangesRefetching ==
    /\ processData' = RestoreOriginal(originalData)
    /\ changedRecords' = <<>>
    /\ editedIds' = {}
    /\ groupedProcessData' = ProcessGroupedData(processData')
    /\ toasts' = <<ShowToast("Info", "Changes cancelled", "info")>>
    /\ lastOp' = Op("handleCancelChanges", "")
    /\ isLoading' = TRUE
    /\ saves' = IF Len(saves) < MaxInFlight
                THEN Append(saves, [stage |-> "refresh", batch |-> <<>>])
                ELSE saves
    /\ UNCHANGED <<originalData, wiredProcessResult, lastLoaded, nEdits>>
    /\ UNCHANGED pvVars

HandleCancelChanges ==
    /\ processData' = RestoreOriginal(originalData)
    /\ changedRecords' = <<>>
    /\ editedIds' = {}
    /\ groupedProcessData' = ProcessGroupedData(processData')
    /\ toasts' = <<ShowToast("Info", "Changes cancelled", "info")>>
    /\ lastOp' = Op("handleCancelChanges", "")
    /\ UNCHANGED <<originalData, isLoading, wiredProcessResult, saves, lastLoaded,
                   nEdits>>
    /\ UNCHANGED pvVars

(***************************************************************************)
(* The settings table component.                                           *)
(***************************************************************************)
Next ==
    \/ \E result \in Results : WireProvision(result)
    \/ TableEdit
    \/ HandleSaveChanges
    \/ HandleCancelChanges
    \/ \E i \in 1..Len(saves) : PersistResolved(i)
    \/ \E i \in 1..Len(saves), m \in Messages : PersistRejected(i, m)
    \/ \E i \in 1..Len(saves), d \in Datasets : RefreshData(i, d)
    \/ \E i \in 1..Len(saves), m \in Messages, rejects \in BOOLEAN :
          RefreshError(i, m, rejects)

Spec == Init /\ [][Next]_vars

(***************************************************************************)
(* The process variables component: dates.  A timestamp of the Apex        *)
(* controller is an instant of January 2024 given by its UTC fields; the   *)
(* browser's zone is ZoneOffsetMinutes east of UTC.  The dash the          *)
(* component shows for an absent timestamp is written "--".                *)
(***************************************************************************)
Instant(day, hour, minute) ==
    [t |-> "iso", day |-> day, hour |-> hour, minute |-> minute]

ZoneOffsetMinutes == 60

\* new Date(timestamp) as read by getFullYear, getMonth, getDate, getHours
\* and getMinutes, which answer in local time.
LocalFields(timestamp) ==
    LET total == timestamp.hour * 60 + timestamp.minute + ZoneOffsetMinutes
    IN  [fullYear |-> 2024, month |-> 0,
         date    |-> timestamp.day + total \div (24 * 60),
         hours   |-> (total % (24 * 60)) \div 60,
         minutes |-> total % 60]

\* The same Date read by the getUTC... methods.
UtcFields(timestamp) ==
    [fullYear |-> 2024, month |-> 0, date |-> timestamp.day,
     hours |-> timestamp.hour, minutes |-> timestamp.minute]

\* pad = (n) => (n < 10 ? '0' + n : '' + n)
Pad(n) == IF n < 10 THEN "0" \o ToString(n) ELSE ToString(n)

\* toInputDateTimeLocal(dateObj): yyyy-MM-ddTHH:mm
ToInputDateTimeLocal(dateObj) ==
    ToString(dateObj.fullYear) \o "-" \o Pad(dateObj.month + 1) \o "-" \o
    Pad(dateObj.date) \o "T" \o Pad(dateObj.hours) \o ":" \o Pad(dateObj.minutes)

\* dateObj.toLocaleString(), in the form dd/MM/yyyy, HH:mm:ss.
ToLocaleString(dateObj) ==
    Pad(dateObj.date) \o "/" \o Pad(dateObj.month + 1) \o "/" \o
    ToString(dateObj.fullYear) \o ", " \o Pad(dateObj.hours) \o ":" \o
    Pad(dateObj.minutes) \o ":00"

(***************************************************************************)
(* The process variables component: what the Apex controller can answer,   *)
(* and what the operator can enter.                                        *)
(***************************************************************************)
\* 23:05 UTC on the 5th: the 6th, 00:05, in the browser's zone.
T1 == Instant(5, 23, 5)

ServerTimestamps == {NULL, T1}

\* The answers of getProcessVariables and updateProcessVariables.
VarsAnswers ==
    {NULL} \cup [serialEngineOn : BOOLEAN, serialEngineTimestamp : ServerTimestamps]

\* The answers of getProcessVariableLabels.
LabelsAnswers ==
    {NULL, [serialEngineOn |-> "Engine", serialEngineTimestamp |-> UNDEFINED]}

\* The rejections of updateProcessVariables: with and without body.message.
SaveErrors == {NULL, [body |-> [message |-> "denied"]]}

\* The values of the datetime-local input.
TimestampInputs == {"", "2024-01-02T10:15"}

(***************************************************************************)
(* connectedCallback, loadVars and loadLabels                              *)
(***************************************************************************)
\* A pending Apex call: the function, the method awaiting it and, for
\* updateProcessVariables, the arguments.
Call(fn, caller, args) == [fn |-> fn, caller |-> caller, args |-> args]

ConnectedCallback ==
    /\ lastOp.op = "constructor"
    /\ calls' = <<Call("getProcessVariableLabels", "connectedCallback", NULL),
                  Call("getProcessVariables", "connectedCallback", NULL)>>
    /\ toasts' = <<>>
    /\ lastOp' = Op("connectedCallback", "")
    /\ UNCHANGED <<serialEngineOn, serialEngineTimestampDisplay,
                   labelSerialEngineOn, labelSerialEngineTimestamp,
                   editSerialEngineOn, editSerialEngineTimestamp,
                   rawSerialEngineTimestamp>>
    /\ UNCHANGED settingsVars

\* The assignments of loadVars and of handleSave from an answer that is not
\* null.
ApplyVars(answer) ==
    /\ serialEngineOn' = (answer.serialEngineOn = TRUE)
    /\ serialEngineTimestampDisplay' =
          IF answer.serialEngineTimestamp # NULL
          THEN ToLocaleString(LocalFields(answer.serialEngineTimestamp))
          ELSE "--"
    /\ editSerialEngineOn' = (answer.serialEngineOn = TRUE)
    /\ editSerialEngineTimestamp' =
          IF answer.serialEngineTimestamp # NULL
          THEN ToInputDateTimeLocal(LocalFields(answer.serialEngineTimestamp))
          ELSE ""
    /\ rawSerialEngineTimestamp' = answer.serialEngineTimestamp

SavedToast == ShowToast("Saved", "Process variables updated", "success")

\* The toast handleSave fires when the loadVars it awaited has returned.
ToastsAfterLoadVars(call) ==
    IF call.caller = "handleSave" THEN <<SavedToast>> ELSE <<>>

\* getProcessVariables resolved: the rest of loadVars.
LoadVarsResolved(i, answer) ==
    /\ calls[i].fn = "getProcessVariables"
    /\ IF answer # NULL
       THEN ApplyVars(answer)
       ELSE UNCHANGED <<serialEngineOn, serialEngineTimestampDisplay,
                        editSerialEngineOn, editSerialEngineTimestamp,
                        rawSerialEngineTimestamp>>
    /\ calls' = RemoveAt(calls, i)
    /\ toasts' = ToastsAfterLoadVars(calls[i])
    /\ lastOp' = Op("loadVarsResolved", "")
    /\ UNCHANGED <<labelSerialEngineOn, labelSerialEngineTimestamp>>
    /\ UNCHANGED settingsVars

\* getProcessVariables rejected: the catch of loadVars logs to the console;
\* loadVars returns normally to its caller.
LoadVarsRejected(i) ==
    /\ calls[i].fn = "getProcessVariables"
    /\ calls' = RemoveAt(calls, i)
    /\ toasts' = ToastsAfterLoadVars(calls[i])
    /\ lastOp' = Op("loadVarsRejected", "")
    /\ UNCHANGED <<serialEngineOn, serialEngineTimestampDisplay,
                   labelSerialEngineOn, labelSerialEngineTimestamp,
                   editSerialEngineOn, editSerialEngineTimestamp,
                   rawSerialEngineTimestamp>>
    /\ UNCHANGED settingsVars

\* getProcessVariableLabels resolved: the rest of loadLabels.
LoadLabelsResolved(i, labels) ==
    /\ calls[i].fn = "getProcessVariableLabels"
    /\ labelSerialEngineOn' =
          IF labels # NULL /\ TruthyText(labels.serialEngineOn)
          THEN labels.serialEngineOn ELSE labelSerialEngineOn
    /\ labelSerialEngineTimestamp' =
          IF labels # NULL /\ TruthyText(labels.serialEngineTimestamp)
          THEN labels.serialEngineTimestamp ELSE labelSerialEngineTimestamp
    /\ calls' = RemoveAt(calls, i)
    /\ toasts' = <<>>
    /\ lastOp' = Op("loadLabelsResolved", "")
    /\ UNCHANGED <<serialEngineOn, serialEngineTimestampDisplay,
                   editSerialEngineOn, editSerialEngineTimestamp,
                   rawSerialEngineTimestamp>>
    /\ UNCHANGED settingsVars

\* getProcessVariableLabels rejected: the catch of loadLabels logs to the
\* console.
LoadLabelsRejected(i) ==
    /\ calls[i].fn = "getProcessVariableLabels"
    /\ calls' = RemoveAt(calls, i)
    /\ toasts' = <<>>
    /\ lastOp' = Op("loadLabelsRejected", "")
    /\ UNCHANGED <<serialEngineOn, serialEngineTimestampDisplay,
                   labelSerialEngineOn, labelSerialEngineTimestamp,
                   editSerialEngineOn, editSerialEngineTimestamp,
                   rawSerialEngineTimestamp>>
    /\ UNCHANGED settingsVars

(***************************************************************************)
(* handleToggleChange, handleTimestampChange, handleSave and handleCancel  *)
(***************************************************************************)
HandleToggleChange(checked) ==
    /\ editSerialEngineOn' = checked
    /\ toasts' = <<>>
    /\ lastOp' = Op("handleToggleChange", "")
    /\ UNCHANGED <<serialEngineOn, serialEngineTimestampDisplay,
                   labelSerialEngineOn, labelSerialEngineTimestamp,
                   editSerialEngineTimestamp, rawSerialEngineTimestamp, calls>>
    /\ UNCHANGED settingsVars

HandleTimestampChange(value) ==
    /\ editSerialEngineTimestamp' = value
    /\ toasts' = <<>>
    /\ lastOp' = Op("handleTimestampChange", "")
    /\ UNCHANGED <<serialEngineOn, serialEngineTimestampDisplay,
                   labelSerialEngineOn, labelSerialEngineTimestamp,
                   editSerialEngineOn, rawSerialEngineTimestamp, calls>>
    /\ UNCHANGED settingsVars

\* tsIso: null for an empty input, else the text with ':00' appended when it
\* has no seconds.
TsIso(text) ==
    IF text = "" THEN NULL
    ELSE [t |-> "text",
          text |-> IF Len(text) >= 16 /\ Len(text) < 19
                   THEN text \o ":00" ELSE text]

\* handleSave up to its await of updateProcessVariables.
HandleSave ==
    /\ Cardinality({i \in 1..Len(calls) :
                       calls[i].caller = "handleSave"}) < MaxCalls
    /\ calls' = Append(calls,
                   Call("updateProcessVariables", "handleSave",
                        [serialEngineOn |-> editSerialEngineOn,
                         serialEngineTimestampIso |->
                             TsIso(editSerialEngineTimestamp)]))
    /\ toasts' = <<>>
    /\ lastOp' = Op("handleSave", "")
    /\ UNCHANGED <<serialEngineOn, serialEngineTimestampDisplay,
                   labelSerialEngineOn, labelSerialEngineTimestamp,
                   editSerialEngineOn, editSerialEngineTimestamp,
                   rawSerialEngineTimestamp>>
    /\ UNCHANGED settingsVars

\* updateProcessVariables resolved: the returned values are applied, or, for
\* an empty answer, loadVars is called and awaited.
UpdateResolved(i, dto) ==
    /\ calls[i].fn = "updateProcessVariables"
    /\ IF dto # NULL
       THEN /\ ApplyVars(dto)
            /\ calls' = RemoveAt(calls, i)
            /\ toasts' = <<SavedToast>>
       ELSE /\ calls' = [calls EXCEPT
                            ![i] = Call("getProcessVariables", "handleSave",
                                        NULL)]
            /\ toasts' = <<>>
            /\ UNCHANGED <<serialEngineOn, serialEngineTimestampDisplay,
                           editSerialEngineOn, editSerialEngineTimestamp,
                           rawSerialEngineTimestamp>>
    /\ lastOp' = Op("updateResolved", "")
    /\ UNCHANGED <<labelSerialEngineOn, labelSerialEngineTimestamp>>
    /\ UNCHANGED settingsVars

\* (e && e.body && e.body.message) ? e.body.message : 'Unable to save changes'
SaveErrorMessage(e) ==
    IF e # NULL /\ TruthyText(e.body.message)
    THEN e.body.message ELSE "Unable to save changes"

\* updateProcessVariables rejected: the catch of handleSave.
UpdateRejected(i, e) ==
    /\ calls[i].fn = "updateProcessVariables"
    /\ calls' = RemoveAt(calls, i)
    /\ toasts' = <<ShowToast("Error saving", SaveErrorMessage(e), "error")>>
    /\ lastOp' = Op("updateRejected", SaveErrorMessage(e))
    /\ UNCHANGED <<serialEngineOn, serialEngineTimestampDisplay,
                   labelSerialEngineOn, labelSerialEngineTimestamp,
                   editSerialEngineOn, editSerialEngineTimestamp,
                   rawSerialEngineTimestamp>>
    /\ UNCHANGED settingsVars

\* Variant of HandleCancel: the timestamp is formatted from the UTC fields.
HandleCancelUtc ==
    /\ editSerialEngineOn' = serialEngineOn
    /\ editSerialEngineTimestamp' =
          IF rawSerialEngineTimestamp # NULL
          THEN ToInputDateTimeLocal(UtcFields(rawSerialEngineTimestamp))
          ELSE ""
    /\ toasts' = <<>>
    /\ lastOp' = Op("handleCancel", "")
    /\ UNCHANGED <<serialEngineOn, serialEngineTimestampDisplay,
                   labelSerialEngineOn, labelSerialEngineTimestamp,
                   rawSerialEngineTimestamp, calls>>
    /\ UNCHANGED settingsVars

HandleCancel ==
    /\ editSerialEngineOn' = serialEngineOn
    /\ editSerialEngineTimestamp' =
          IF rawSerialEngineTimestamp # NULL
          THEN ToInputDateTimeLocal(LocalFields(rawSerialEngineTimestamp))
          ELSE ""
    /\ toasts' = <<>>
    /\ lastOp' = Op("handleCancel", "")
    /\ UNCHANGED <<serialEngineOn, serialEngineTimestampDisplay,
                   labelSerialEngineOn, labelSerialEngineTimestamp,
                   rawSerialEngineTimestamp, calls>>
    /\ UNCHANGED settingsVars

(***************************************************************************)
(* The process variables component.                                        *)
(***************************************************************************)
NextVars ==
    \/ ConnectedCallback
    \/ \E i \in 1..Len(calls), answer \in VarsAnswers : LoadVarsResolved(i, answer)
    \/ \E i \in 1..Len(calls) : LoadVarsRejected(i)
    \/ \E i \in 1..Len(calls), labels \in LabelsAnswers :
          LoadLabelsResolved(i, labels)
    \/ \E i \in 1..Len(calls) : LoadLabelsRejected(i)
    \/ \E checked \in BOOLEAN : HandleToggleChange(checked)
    \/ \E value \in TimestampInputs : HandleTimestampChange(value)
    \/ HandleSave
    \/ \E i \in 1..Len(calls), dto \in VarsAnswers : UpdateResolved(i, dto)
    \/ \E i \in 1..Len(calls), e \in SaveErrors : UpdateRejected(i, e)
    \/ HandleCancel

SpecVars == Init /\ [][NextVars]_vars

(***************************************************************************)
(* The projection as a function of the working set alone: the working set  *)
(* is drawn from the records a load followed by edits can produce, and     *)
(* processGroupedData() is applied to it.                                  *)
(***************************************************************************)
ProjNames == {"A", "B"}
ProjGroups == {UNDEFINED, "G1"}
ProjOrders == {OrderUndefined, Num(0), Num(1), Num(1000)}
ProjShapes == [Name : ProjNames, Active__c : BOOLEAN, Group__c : ProjGroups,
               Order__c : ProjOrders]

\* The i-th record of a fetched list, with the surrogate id of its position.
ProjServerRecord(i, shape) ==
    ServerRecord("r" \o ToString(i), shape.Name, shape.Active__c,
                 shape.Group__c, shape.Order__c)

\* The fetched list of n records with the given shapes.
ProjDataset(n, shapes) == [i \in 1..n |-> ProjServerRecord(i, shapes[i])]

InitProj ==
    /\ \E n \in 0..MaxProjRecords :
          \E shapes \in [1..n -> ProjShapes] :
              processData = NormalizeLoaded(ProjDataset(n, shapes))
    /\ originalData = <<>>
    /\ groupedProcessData = <<>>
    /\ changedRecords = <<>>
    /\ isLoading = FALSE
    /\ wiredProcessResult = NoResult
    /\ saves = <<>>
    /\ toasts = <<>>
    /\ lastOp = Op("constructor", "")
    /\ lastLoaded = <<>>
    /\ editedIds = {}
    /\ nEdits = 0
    /\ ProcessVariablesConstructed

\* this.processGroupedData()
ProcessGroupedDataCall ==
    /\ lastOp.op = "constructor"
    /\ groupedProcessData' = ProcessGroupedData(processData)
    /\ lastOp' = Op("processGroupedData", "")
    /\ UNCHANGED <<processData, originalData, changedRecords, isLoading,
                   wiredProcessResult, saves, toasts, lastLoaded, editedIds,
                   nEdits>>
    /\ UNCHANGED pvVars

NextProj == ProcessGroupedDataCall

SpecProj == InitProj /\ [][NextProj]_vars

(***************************************************************************)
(* Properties.                                                             *)
(***************************************************************************)
\* handleSaveChanges has just called updateProcessSettings.
SaveIssued == lastOp.op = "handleSaveChanges" /\ HasChanges

\* The batch of the call made last.
IssuedBatch == saves[Len(saves)].batch

\* The place in the working set of the record that handleTableEdit stages
\* under an id: the last one with that id.
LastIndexOf(records, id) ==
    CHOOSE i \in 1..Len(records) :
        /\ records[i].Id = id
        /\ \A j \in (i + 1)..Len(records) : records[j].Id # id

C2_CancelRestoresBaseline ==
    lastOp.op = "handleCancelChanges" =>
        /\ ~HasChanges
        /\ originalData = lastLoaded
        /\ processData = NormalizeLoaded(lastLoaded)

\* A cancel after edits, with a save still pending.
C2_Witness ==
    /\ lastOp.op = "handleCancelChanges"
    /\ nEdits > 0
    /\ Len(saves) > 0
    /\ Len(processData) = 2

\* The working set as it was loaded.
Baseline == NormalizeLoaded(originalData)

\* C3 (as claimed): an id is a key of changedRecords iff a working record
\* with that id differs from its baseline record.
C3_KeyIffDiffers ==
    \A id \in MapKeys(changedRecords) \cup
              {processData[i].Id : i \in 1..Len(processData)} :
        MapHas(changedRecords, id) <=>
            \E i \in 1..Len(processData) :
                processData[i].Id = id /\ processData[i] # Baseline[i]

\* C4: the first then-callback of a save fires the success toast and clears
\* changedRecords; when the refresh has provisioned its data, changedRecords
\* is empty, originalData and processData are the provisioned records
\* (processData normalised) and groupedProcessData is the projection of
\* processData.
C4_SuccessfulSaveReloads ==
    /\ lastOp.op = "persistResolved" =>
          /\ toasts = <<ShowToast("Success",
                                  "Process settings updated successfully",
                                  "success")>>
          /\ ~HasChanges
    /\ lastOp.op = "refreshData" =>
          /\ wiredProcessResult.kind = "data"
          /\ ~HasChanges
          /\ originalData = wiredProcessResult.data
          /\ processData = NormalizeLoaded(wiredProcessResult.data)
          /\ groupedProcessData = ProcessGroupedData(processData)

\* A refresh delivered records after an edit made while the save was pending.
C4_Witness ==
    /\ lastOp.op = "refreshData"
    /\ Len(processData) = 2
    /\ nEdits = 2
    /\ saves = <<>>

C6_OnePersistInFlight ==
    Cardinality({i \in 1..Len(saves) : saves[i].stage = "persist"}) <= 1

\* C7: groupedProcessData is processGroupedData applied to the current
\* processData.
C7_GroupedViewIsProjection ==
    groupedProcessData = ProcessGroupedData(processData)

\* An edit that changed the grouped view.
C7_Witness ==
    /\ lastOp.op = "handleTableEdit"
    /\ groupedProcessData # ProcessGroupedData(Baseline)
    /\ Len(groupedProcessData) = 2

\* processGroupedData has run on the working set.
Projected == lastOp.op # "constructor"

\* A member of a group without the statusClass the projection adds.
WithoutStatusClass(member) ==
    [f \in DOMAIN member \ {"statusClass"} |-> member[f]]

\* The places <<group, member>> of the grouped view.
Places ==
    UNION {{<<g, k>> : k \in 1..Len(groupedProcessData[g].processes)} :
              g \in 1..Len(groupedProcessData)}

MemberAt(place) == groupedProcessData[place[1]].processes[place[2]]

\* The group a record belongs to by the words of the claim.
ClaimedGroupName(record) ==
    IF record.Group__c = UNDEFINED \/ record.Group__c = ""
    THEN "Ungrouped"
    ELSE record.Group__c

\* C8: the members of the groups are the working records, each as often as
\* it occurs in processData (once, when the records differ), and each in the
\* group named by its Group__c, or in 'Ungrouped' when that is absent or
\* empty.
C8_GroupsPartitionWorkingSet ==
    Projected =>
        /\ Cardinality(Places) = Len(processData)
        /\ \A i \in 1..Len(processData) :
              LET found == {place \in Places :
                              WithoutStatusClass(MemberAt(place)) = processData[i]}
              IN  /\ Cardinality(found) =
                        Cardinality({j \in 1..Len(processData) :
                                        processData[j] = processData[i]})
                  /\ \A place \in found :
                        groupedProcessData[place[1]].groupName =
                            ClaimedGroupName(processData[i])

\* Three records in two groups, two of them without a group name.
C8_Witness ==
    /\ Projected
    /\ Len(processData) = 3
    /\ Len(groupedProcessData) = 2
    /\ \E g \in 1..Len(groupedProcessData) :
          /\ groupedProcessData[g].groupName = "Ungrouped"
          /\ Len(groupedProcessData[g].processes) = 2

\* An order value that is a number; undefined, '' and NaN count as absent.
HasOrderValue(member) == member.Order__c.t = "number"

\* C9 (as claimed): in every group the members with an order value come
\* first, by ascending value, the members without one come last, and members
\* of equal order (two absent orders included) are ordered by Name.
C9_MembersSortedByOrderThenName ==
    Projected =>
        \A g \in 1..Len(groupedProcessData) :
            LET members == groupedProcessData[g].processes
            IN  \A k, l \in 1..Len(members) :
                    k < l =>
                        LET a == members[k]
                            b == members[l]
                        IN  /\ ~(~HasOrderValue(a) /\ HasOrderValue(b))
                            /\ (HasOrderValue(a) /\ HasOrderValue(b)) =>
                                  a.Order__c.n <= b.Order__c.n
                            /\ ((~HasOrderValue(a) /\ ~HasOrderValue(b)) \/
                                (HasOrderValue(a) /\ HasOrderValue(b) /\
                                 a.Order__c.n = b.Order__c.n)) =>
                                  LocaleCompare(a.Name, b.Name) <= 0

\* C10: for a group of N members, K of them active, statusText is
\* 'K/N Active', headerClass is the active style iff K = N, the inactive
\* style iff K = 0 and the mixed style iff 0 < K < N, and allActive iff K = N.
C10_HeaderClassification ==
    Projected =>
        \A g \in 1..Len(groupedProcessData) :
            LET group == groupedProcessData[g]
                N == Len(group.processes)
                K == Cardinality({k \in 1..Len(group.processes) :
                                     group.processes[k].Active__c = TRUE})
            IN  /\ group.statusText = ToString(K) \o "/" \o ToString(N) \o " Active"
                /\ group.headerClass = "group-header active-group-header" <=> K = N
                /\ group.headerClass = "group-header inactive-group-header" <=> K = 0
                /\ group.headerClass = "group-header mixed-group-header" <=>
                      (0 < K /\ K < N)
                /\ group.allActive <=> K = N

\* A group of three with one active member.
C10_Witness ==
    /\ Projected
    /\ \E g \in 1..Len(groupedProcessData) :
          /\ groupedProcessData[g].statusText = "1/3 Active"
          /\ groupedProcessData[g].headerClass = "group-header mixed-group-header"
          /\ ~groupedProcessData[g].allActive

\* C11: the groups of groupedProcessData are in strictly ascending order of
\* groupName by localeCompare (so no two groups share a name), 'Ungrouped'
\* taking its place by the same rule.
C11_GroupsSortedByName ==
    Projected =>
        \A g, h \in 1..Len(groupedProcessData) :
            g < h => CollationRank(groupedProcessData[g].groupName) <
                     CollationRank(groupedProcessData[h].groupName)

\* Two groups, the first record of the working set belonging to the second.
C11_Witness ==
    /\ Projected
    /\ Len(groupedProcessData) = 2
    /\ Len(processData) = 3
    /\ GroupNameOf(processData[1]) = groupedProcessData[2].groupName

\* C12: handleSaveChanges called with an empty changedRecords issues no
\* updateProcessSettings call, fires one toast of variant info, and leaves
\* processData, originalData, changedRecords, groupedProcessData and
\* isLoading as they are.
C12_EmptySaveIsNoOp ==
    [][(lastOp'.op = "handleSaveChanges" /\ Len(changedRecords) = 0) =>
          /\ saves' = saves
          /\ Len(toasts') = 1
          /\ toasts'[1].variant = "info"
          /\ processData' = processData
          /\ originalData' = originalData
          /\ changedRecords' = changedRecords
          /\ groupedProcessData' = groupedProcessData
          /\ isLoading' = isLoading]_vars

\* A save with nothing staged, on a loaded table whose edits were cancelled
\* while an earlier save is pending.
C12_Witness ==
    /\ lastOp.op = "handleSaveChanges"
    /\ ~HasChanges
    /\ toasts = <<ShowToast("Info", "No changes to save", "info")>>
    /\ Len(processData) = 2
    /\ nEdits > 0
    /\ Len(saves) = 1

\* C13: handleCancelChanges makes no updateProcessSettings call and no fetch
\* (the pending calls and the wire's result stay as they are) and leaves
\* originalData and isLoading unchanged; so edits followed by a cancel, with
\* no save in between, make no updateProcessSettings call.
C13_CancelIsLocal ==
    [][lastOp'.op = "handleCancelChanges" =>
          /\ saves' = saves
          /\ wiredProcessResult' = wiredProcessResult
          /\ originalData' = originalData
          /\ isLoading' = isLoading]_vars

\* A cancel after two edits, no save having been issued.
C13_Witness ==
    /\ lastOp.op = "handleCancelChanges"
    /\ nEdits = 2
    /\ saves = <<>>
    /\ ~isLoading
    /\ Len(originalData) = 2

\* handleTableEdit is called with this recordId, whatever the column and the
\* value.
EditsRecord(recordId) ==
    \/ \E v \in NameInputs : HandleTableEdit(recordId, "Name", v)
    \/ \E v \in ActiveInputs : HandleTableEdit(recordId, "Active__c", v)
    \/ \E v \in OrderInputs : HandleTableEdit(recordId, "Order__c", v)

\* C14: handleTableEdit with a recordId that no record of processData has
\* leaves processData, changedRecords, originalData and groupedProcessData
\* as they are, fires no toast and makes no call.
C14_UnknownIdEditIsNoOp ==
    [][\A recordId \in EditIds :
          ((\A i \in 1..Len(processData) : processData[i].Id # recordId)
           /\ EditsRecord(recordId)) =>
              /\ processData' = processData
              /\ changedRecords' = changedRecords
              /\ originalData' = originalData
              /\ groupedProcessData' = groupedProcessData
              /\ toasts' = <<>>
              /\ saves' = saves
              /\ wiredProcessResult' = wiredProcessResult]_vars

\* The only edit so far, on a loaded table, matched no record.
C14_Witness ==
    /\ lastOp.op = "handleTableEdit"
    /\ nEdits = 1
    /\ editedIds = {}
    /\ Len(processData) = 2
    /\ ~HasChanges

\* wiredProcess has been called with an error.
WireDeliversError ==
    \/ lastOp'.op = "refreshError"
    \/ lastOp'.op = "wiredProcess" /\ wiredProcessResult'.kind = "error"

\* C15: a call of wiredProcess with an error leaves processData,
\* originalData, changedRecords and groupedProcessData as they are, staged
\* edits included, and fires the error toast with the error's message.
C15_FetchErrorKeepsState ==
    [][WireDeliversError =>
          /\ processData' = processData
          /\ originalData' = originalData
          /\ changedRecords' = changedRecords
          /\ groupedProcessData' = groupedProcessData
          /\ Len(toasts') >= 1
          /\ toasts'[1] = ShowToast("Error",
                                    "Error loading process settings: " \o
                                        wiredProcessResult'.message,
                                    "error")]_vars

\* The re-fetch after a save failed while an edit made after the save was
\* staged.
C15_Witness ==
    /\ lastOp.op = "refreshError"
    /\ wiredProcessResult.kind = "error"
    /\ HasChanges
    /\ processData # Baseline
    /\ toasts[1] = LoadErrorToast("denied")

\* The handler that ran last was the failure path of a remote call.
RemoteCallFailed ==
    \/ lastOp.op \in {"persistRejected", "refreshError", "loadVarsRejected",
                      "loadLabelsRejected", "updateRejected"}
    \/ lastOp.op = "wiredProcess" /\ wiredProcessResult.kind = "error"

\* C16 (as claimed): the failure path of every remote call of either
\* component dispatches a toast.
C16_EveryFailureNotifies == RemoteCallFailed => toasts # <<>>

\* The text toInputDateTimeLocal gives for the committed timestamp T1.
LocalFormOfT1 == "2024-01-06T00:05"

\* C17: handleCancel sets editSerialEngineOn to serialEngineOn and
\* editSerialEngineTimestamp to the local-time text of
\* rawSerialEngineTimestamp ('' when that is null), whatever was entered,
\* and leaves serialEngineOn, serialEngineTimestampDisplay and
\* rawSerialEngineTimestamp as they are.
C17_CancelDiscardsEdits ==
    [][lastOp'.op = "handleCancel" =>
          /\ editSerialEngineOn' = serialEngineOn
          /\ editSerialEngineTimestamp' =
                (IF rawSerialEngineTimestamp = NULL THEN ""
                 ELSE IF rawSerialEngineTimestamp = T1 THEN LocalFormOfT1
                 ELSE ToInputDateTimeLocal(LocalFields(rawSerialEngineTimestamp)))
          /\ serialEngineOn' = serialEngineOn
          /\ serialEngineTimestampDisplay' = serialEngineTimestampDisplay
          /\ rawSerialEngineTimestamp' = rawSerialEngineTimestamp]_vars

\* A cancel with a committed timestamp and flag, after both were edited and
\* submitted by a save that is still pending.
C17_Witness ==
    /\ lastOp.op = "handleCancel"
    /\ rawSerialEngineTimestamp = T1
    /\ serialEngineOn
    /\ editSerialEngineOn
    /\ editSerialEngineTimestamp = LocalFormOfT1
    /\ \E i \in 1..Len(calls) :
          /\ calls[i].fn = "updateProcessVariables"
          /\ ~calls[i].args.serialEngineOn
          /\ calls[i].args.serialEngineTimestampIso =
                [t |-> "text", text |-> "2024-01-02T10:15:00"]

\* The snapshot is in the batch of an updateProcessSettings call that is
\* pending.
SentInPendingBatch(snapshot) ==
    \E j \in 1..Len(saves) :
        /\ saves[j].stage = "persist"
        /\ \E b \in 1..Len(saves[j].batch) : saves[j].batch[b] = snapshot

\* C18 (as claimed): when a save's first then-callback runs, every staged
\* snapshot is in the batch of that save or of a later one, or stays staged.
C18_NoEditDroppedBySave ==
    [][lastOp'.op = "persistResolved" =>
          \A k \in 1..Len(changedRecords) :
              \/ SentInPendingBatch(changedRecords[k].value)
              \/ \E l \in 1..Len(changedRecords') :
                    changedRecords'[l] = changedRecords[k]]_vars

\* C19 (as claimed): isLoading is true while an updateProcessSettings call
\* or its refresh is pending.
C19_LoadingWhilePending == saves # <<>> => isLoading

\* C20 (as claimed): every key of changedRecords is the Id of a working
\* record, and every working record with that Id equals the snapshot staged
\* under it.
C20_StagedMatchesWorking ==
    \A k \in 1..Len(changedRecords) :
        /\ \E i \in 1..Len(processData) : processData[i].Id = changedRecords[k].key
        /\ \A i \in 1..Len(processData) :
              processData[i].Id = changedRecords[k].key =>
                  changedRecords[k].value = processData[i]

=============================================================================
